---- MODULE Spec2Model ----
(***************************************************************************)
(* PointNuker: the GUI session (PointNuker.py, class PointNukerApp) and    *)
(* the headless entry point (pointnuker_cli.py, main).                     *)
(*                                                                         *)
(* The GUI is two threads: the Tk main thread, whose callbacks (load,      *)
(* reset, cluster finder, widget edits, save) are the actions below, and   *)
(* the worker thread run_clean starts, which executes _clean_proc one      *)
(* statement group per action (pc).  Open3D's filters are a library: their *)
(* results are drawn from every outcome their signatures allow (any        *)
(* ascending list of kept positions, any labelling, an empty cloud).       *)
(***************************************************************************)
EXTENDS Integers, Sequences, FiniteSets, TLC

\* ------------------------------------------------------------------ bounds
NPts == 3
MaxOps == 3
MaxEdits == 1

\* ------------------------------------------------------------- Python None
None == "None"
NonePcd == << <<>> >>
NoneIdx == << -1 >>

\* --------------------------------------------------------- sequence helpers
RECURSIVE SortedSeq(_)
SortedSeq(S) ==
    IF S = {} THEN <<>>
    ELSE LET m == CHOOSE a \in S : \A b \in S : a <= b
         IN  <<m>> \o SortedSeq(S \ {m})

\* every ascending list of positions of an n-element array (1-based here)
AscPositions(n) == { SortedSeq(S) : S \in SUBSET (1..n) }


\* numpy's sort of an array: ascending, equal entries kept
RECURSIVE NpSort(_)
NpSort(s) ==
    IF Len(s) = 0 THEN <<>>
    ELSE LET m == CHOOSE i \in 1..Len(s) : \A j \in 1..Len(s) : s[i] <= s[j]
         IN  << s[m] >> \o NpSort([k \in 1..(Len(s) - 1) |->
                                      IF k < m THEN s[k] ELSE s[k + 1]])

StrictlyIncreasing(s) == \A i \in 1..(Len(s) - 1) : s[i] < s[i + 1]

RECURSIVE Lcm1(_, _)
Lcm1(n, acc) ==
    IF n <= 1 THEN acc
    ELSE Lcm1(n - 1, CHOOSE m \in acc..(acc * n) : m % acc = 0 /\ m % n = 0
                        /\ \A k \in acc..(m - 1) : ~(k % acc = 0 /\ k % n = 0))

\* coordinates are kept as integers: a float64 value v is held as v * Scale,
\* so that the centroid of up to NPts + 1 points is exact
Scale == Lcm1(NPts + 1, 1)

\* ------------------------------------------------------------ the PLY files
\* PlyData.read(path): what each file on disk parses to
GoodFiles == {"A", "B"}
Files == GoodFiles \cup {"X", "Z", "V"}

HasVertex(f) == f /= "V"
\* a well-formed file whose points lie on the diagonal of a cube
SolidFiles == {"C"}
HasXYZ(f) == f \in GoodFiles \cup SolidFiles

NRows(f) ==
    CASE f = "A" -> NPts
      [] f = "B" -> 2
      [] f = "X" -> NPts + 1
      [] f = "C" -> NPts
      [] OTHER   -> 0

\* row i (1-based) of ply['vertex'].data: x, y, z and an opaque payload
RowXYZ(f, i) ==
    IF f = "A" THEN << i * Scale, (i % 2) * Scale, 0 >>
    ELSE IF f = "C" THEN << i * Scale, i * Scale, i * Scale >>
    ELSE << 0, i * Scale, (3 - i) * Scale >>

RowAttr(f, i) == << f, i >>

\* np.stack([v['x'], v['y'], v['z']], axis=1)
StackXYZ(f) == [i \in 1..NRows(f) |-> RowXYZ(f, i)]

\* np.arange(n, dtype=np.int64)
Arange(n) == [i \in 1..n |-> i - 1]

\* ------------------------------------------------------ array operations
\* a[ind] / pcd.select_by_index(ind): ind holds 1-based positions
Take(a, ind) == [i \in 1..Len(ind) |-> a[ind[i]]]

\* numpy raises IndexError when a position is outside the array
IndexOK(a, ind) == \A i \in 1..Len(ind) : ind[i] <= Len(a)

pcd_n_points(p) == IF p = NonePcd THEN 0 ELSE Len(p)

pcd_is_empty(p) == pcd_n_points(p) = 0

\* ------------------------------------------------- Open3D (library) results
\* pcd.remove_radius_outlier / remove_statistical_outlier return (cloud, ind):
\* ind is an ascending list of kept positions; which positions depends on the
\* geometry and the parameters, so every ascending list is drawn
OutlierInd(p) == AscPositions(Len(p))

\* pcd.cluster_dbscan: one label per point, -1 is noise
Labels == {-1, 0, 1}
Labelings(p) == [1..Len(p) -> Labels]

RECURSIVE SumAxis(_, _, _)
SumAxis(p, S, a) ==
    IF S = {} THEN 0
    ELSE LET i == CHOOSE j \in S : TRUE
         IN  p[i][a] + SumAxis(p, S \ {i}, a)

Min(S) == CHOOSE a \in S : \A b \in S : a <= b
Max(S) == CHOOSE a \in S : \A b \in S : a >= b

\* pcd.voxel_down_sample(voxel_size): grid anchored at min_bound - size/2, one
\* centroid per occupied cell; size is in whole units of Scale
VoxelDownSample(p, size) ==
    LET n == Len(p)
        vs == size * Scale
        mn(a) == Min({p[i][a] : i \in 1..n})
        cell(i) == [a \in 1..3 |-> (2 * (p[i][a] - mn(a)) + vs) \div (2 * vs)]
        members(i) == {j \in 1..n : cell(j) = cell(i)}
        firsts == SortedSeq({i \in 1..n : i = Min(members(i))})
    IN  [k \in 1..Len(firsts) |->
            LET M == members(firsts[k])
            IN  [a \in 1..3 |-> SumAxis(p, M, a) \div Cardinality(M)]]

\* what _clean_proc may get back from voxel_down_sample: the grid result, or
\* the empty cloud the code guards against (line 877)
VoxelOutcomes(p, size) == {VoxelDownSample(p, size), <<>>}

\* unique, counts = np.unique(labels[labels >= 0], return_counts=True);
\* unique[np.argmax(counts)]: np.unique sorts, argmax takes the first maximum
Count(labels, l) == Cardinality({i \in DOMAIN labels : labels[i] = l})

\* a variant that takes the last maximum instead of the first
BestLabelLast(labels) ==
    LET unique == {labels[i] : i \in DOMAIN labels} \ {-1}
        top == Max({Count(labels, l) : l \in unique})
    IN  Max({l \in unique : Count(labels, l) = top})

BestLabel(labels) ==
    LET unique == {labels[i] : i \in DOMAIN labels} \ {-1}
        top == Max({Count(labels, l) : l \in unique})
    IN  Min({l \in unique : Count(labels, l) = top})

\* labels.size > 0 and labels.max() >= 0
HasCluster(labels) == \E i \in DOMAIN labels : labels[i] >= 0

\* np.where(labels == lab)[0]
Where(labels, l) == SortedSeq({i \in DOMAIN labels : labels[i] = l})

\* ------------------------------------------------------------ crop bounds
Box(x0, x1, y0, y1, z0, z1) ==
    [blank |-> FALSE, min_x |-> x0 * Scale, max_x |-> x1 * Scale,
     min_y |-> y0 * Scale, max_y |-> y1 * Scale,
     min_z |-> z0 * Scale, max_z |-> z1 * Scale]

\* the six entries left empty
BlankEntries == [Box(0, 0, 0, 0, 0, 0) EXCEPT !.blank = TRUE]

\* a box holding part of file A, a box holding no point, a box with min = max
BoxPart == Box(2, 3, -1, 4, -1, 4)
BoxFar == Box(10, 11, 10, 11, 10, 11)
BoxBad == Box(0, 4, 2, 2, -1, 4)

CropEntries == {BlankEntries, BoxPart, BoxFar, BoxBad}

\* _get_bounds_from_entries: None when an entry is empty, ValueError unless
\* min < max on every axis, else the six floats
BoundsValid(v) ==
    v.min_x < v.max_x /\ v.min_y < v.max_y /\ v.min_z < v.max_z

\* a variant of the mask that leaves out the points on the upper faces
InBoxStrict(pt, b) ==
    /\ pt[1] >= b.min_x /\ pt[1] < b.max_x
    /\ pt[2] >= b.min_y /\ pt[2] < b.max_y
    /\ pt[3] >= b.min_z /\ pt[3] < b.max_z

\* the crop mask of _clean_proc and aabb_crop: inclusive on both ends
InBox(pt, b) ==
    /\ pt[1] >= b.min_x /\ pt[1] <= b.max_x
    /\ pt[2] >= b.min_y /\ pt[2] <= b.max_y
    /\ pt[3] >= b.min_z /\ pt[3] <= b.max_z

\* f"{v:.6f}" read back by float(): v rounded to the nearest multiple of the
\* last printed digit (FmtUnit in the units of the coordinates), ties to even
FmtUnit == 9

Fmt6(v) ==
    LET q == v \div FmtUnit
        r == v % FmtUnit
    IN  IF 2 * r < FmtUnit THEN q * FmtUnit
        ELSE IF 2 * r > FmtUnit THEN (q + 1) * FmtUnit
        ELSE IF q % 2 = 0 THEN q * FmtUnit ELSE (q + 1) * FmtUnit

\* pts.min(axis=0) and pts.max(axis=0)
AxisMin(p, a) == Min({p[i][a] : i \in 1..Len(p)})
AxisMax(p, a) == Max({p[i][a] : i \in 1..Len(p)})

\* what autofill_bounds writes into the six entries for the cloud p
AutofillOf(p) ==
    [blank |-> FALSE,
     min_x |-> Fmt6(AxisMin(p, 1)), max_x |-> Fmt6(AxisMax(p, 1)),
     min_y |-> Fmt6(AxisMin(p, 2)), max_y |-> Fmt6(AxisMax(p, 2)),
     min_z |-> Fmt6(AxisMin(p, 3)), max_z |-> Fmt6(AxisMax(p, 3))]

CropKeep(p, b) == SortedSeq({i \in 1..Len(p) : InBox(p[i], b)})

\* ------------------------------------------------------------------ state
VARIABLES
    app,                        \* which program runs: "gui" or "cli"
    \* PointNukerApp fields
    src_path, ply_raw, vertex_data0, pcd_original,
    pcd_current, idx_current,
    pcd_cleaned, idx_cleaned, mapping_valid_cleaned,
    \* widgets
    var_gs_mode, var_voxel, var_use_rad, var_use_stat,
    var_keep_largest_on_clean, var_crop_vals, var_stat_nb, btn_run,
    \* the worker thread in _clean_proc / the CLI's main: position and locals
    pc, pcd, idx_work, gs_mode, voxel_size, steps_total, steps_done,
    do_crop, bounds, log,
    \* the CLI's parsed arguments
    args,
    \* the rows the last GS-safe export wrote, and from which selection
    written,
    \* history: the set a run started from, whether the run that published
    \* the CLEANED result had applied voxel downsampling
    pcd_start, idx_start, cleaned_voxel,
    \* what the running thread found retained when it was started:
    \* << pcd_cleaned, idx_cleaned, mapping_valid_cleaned, ops >>
    cleaned_start,
    \* user actions so far
    ops, edits,
    \* the labelling cluster_dbscan returns, where a specification fixes it
    \* in advance; << >> where it is left open
    dbscan_out,
    \* the entries of the radius filter's radius and of DBSCAN's eps (in
    \* units of their sixth decimal) and min_points
    var_rad_r, var_db_eps, var_db_minpts,
    \* which of the worker's pcd ("pcd") and pcd_cleaned ("cleaned") hold the
    \* very PointCloud object that pcd_current holds
    shares_current

sessVars == << src_path, ply_raw, vertex_data0, pcd_original,
               pcd_current, idx_current >>
cleanedVars == << pcd_cleaned, idx_cleaned, cleaned_voxel >>
cfgVars == << var_gs_mode, var_voxel, var_use_rad, var_use_stat,
              var_keep_largest_on_clean, var_crop_vals, var_stat_nb >>
countVars == << gs_mode, voxel_size, steps_total, do_crop, bounds >>
startVars == << pcd_start, idx_start, cleaned_start >>

\* no thread is running
NoStart == << NonePcd, NoneIdx, TRUE, 0 >>
workVars == << pcd, idx_work, steps_done, log >>
paramVars == << var_rad_r, var_db_eps, var_db_minpts >>
envVars == << app, args, ops, edits, dbscan_out, paramVars >>

vars == << sessVars, cleanedVars, mapping_valid_cleaned, cfgVars, btn_run, pc,
           countVars, startVars, workVars, written, envVars, shares_current >>

\* the values the voxel entry is given: "0.0" (off) or a size
VoxelSizes == {0, 4}

\* the nb_neighbors entry: an integer, or text int() rejects
StatNbTexts == {"20", "abc"}
IntParses(s) == s = "20"

\* nothing exported yet
NoWrite == [what |-> "nothing", rows |-> <<>>, voxel |-> FALSE]

NoArgs == [input |-> None, dbscan |-> FALSE, radius_outlier |-> FALSE,
           stat_outlier |-> FALSE, crop |-> FALSE, box |-> BlankEntries]

\* PointNukerApp.__init__ and _build_main: nothing loaded, the widgets at
\* their defaults, gs_mode as the saved profile has it
\* the parameter entries at construction: "0.02", and the profile's defaults
\* 0.03 and 30
RadiusEntry0 == 20000
EpsEntry0 == 30000
MinPtsEntry0 == 30

InitGui ==
    /\ app = "gui"
    /\ args = NoArgs
    /\ src_path = None /\ ply_raw = None /\ vertex_data0 = None
    /\ pcd_original = NonePcd /\ pcd_current = NonePcd /\ idx_current = NoneIdx
    /\ pcd_cleaned = NonePcd /\ idx_cleaned = NoneIdx
    /\ mapping_valid_cleaned = TRUE
    /\ var_gs_mode \in BOOLEAN
    /\ var_voxel = 0
    /\ var_use_rad = TRUE /\ var_use_stat = TRUE
    /\ var_keep_largest_on_clean = TRUE
    /\ var_crop_vals = BlankEntries
    /\ var_stat_nb = "20"
    /\ btn_run = "normal"
    /\ pc = "idle"
    /\ pcd = NonePcd /\ idx_work = NoneIdx
    /\ gs_mode = FALSE /\ voxel_size = 0 /\ steps_total = 0 /\ steps_done = 0
    /\ do_crop = FALSE /\ bounds = BlankEntries /\ log = <<>>
    /\ written = NoWrite
    /\ pcd_start = NonePcd /\ idx_start = NoneIdx /\ cleaned_voxel = FALSE
    /\ cleaned_start = NoStart
    /\ ops = 0 /\ edits = 0
    /\ var_rad_r = RadiusEntry0 /\ var_db_eps = EpsEntry0
    /\ var_db_minpts = MinPtsEntry0
    /\ shares_current = {}

Gui == app = "gui"

\* ------------------------------------------------- main thread: file, reset
\* _load_path: the assignments reached before each return / exception stay
LoadPath(f) ==
    /\ Gui
    /\ ops' = ops + 1
    /\ IF ~HasVertex(f)
       THEN UNCHANGED << sessVars, cleanedVars, mapping_valid_cleaned,
                         shares_current >>
       ELSE IF NRows(f) = 0 \/ ~HasXYZ(f)
       THEN /\ ply_raw' = f
            /\ vertex_data0' = f
            /\ UNCHANGED << src_path, pcd_original, pcd_current, idx_current,
                            cleanedVars, mapping_valid_cleaned,
                            shares_current >>
       ELSE /\ ply_raw' = f
            /\ vertex_data0' = f
            /\ pcd_original' = StackXYZ(f)
            /\ pcd_current' = StackXYZ(f)
            /\ shares_current' = {}
            /\ pcd_cleaned' = NonePcd
            /\ idx_current' = Arange(NRows(f))
            /\ idx_cleaned' = NoneIdx
            /\ mapping_valid_cleaned' = TRUE
            /\ src_path' = f
            /\ UNCHANGED cleaned_voxel
    /\ UNCHANGED << cfgVars, btn_run, pc, countVars, startVars, workVars,
                    written, app, args, edits, dbscan_out, paramVars >>

\* reset_to_original
ResetToOriginal ==
    /\ Gui
    /\ pcd_original /= NonePcd
    /\ ops' = ops + 1
    /\ pcd_current' = pcd_original
    /\ shares_current' = {}
    /\ pcd_cleaned' = NonePcd
    /\ idx_current' = IF vertex_data0 /= None
                      THEN Arange(NRows(vertex_data0)) ELSE idx_current
    /\ idx_cleaned' = NoneIdx
    /\ mapping_valid_cleaned' = TRUE
    /\ UNCHANGED << src_path, ply_raw, vertex_data0, pcd_original, cleaned_voxel,
                    cfgVars, btn_run, pc, countVars, startVars, workVars,
                    written, app, args, edits, dbscan_out, paramVars >>

\* _keep_largest_cluster_in_current, given the labels cluster_dbscan returned:
\* the new (pcd_current, idx_current); line 741 runs before line 742 can raise
KeepLargestClusterInCurrent(p, idx, labels) ==
    IF ~HasCluster(labels) THEN << p, idx >>
    ELSE LET idx_local == Where(labels, BestLabel(labels))
         IN  IF IndexOK(idx, idx_local)
             THEN << Take(p, idx_local), Take(idx, idx_local) >>
             ELSE << Take(p, idx_local), idx >>

\* detect_largest_cluster_now, given the labels cluster_dbscan returns
DetectLargestClusterWith(labels) ==
    /\ Gui
    /\ pcd_current /= NonePcd
    /\ ops' = ops + 1
    /\ LET r == KeepLargestClusterInCurrent(pcd_current, idx_current, labels)
       IN  pcd_current' = r[1] /\ idx_current' = r[2]
    /\ shares_current' = IF HasCluster(labels) THEN {} ELSE shares_current
    /\ UNCHANGED << src_path, ply_raw, vertex_data0, pcd_original, cleanedVars,
                    mapping_valid_cleaned, cfgVars, btn_run, pc, countVars,
                    startVars, workVars, written, app, args, edits,
                    dbscan_out, paramVars >>

\* detect_largest_cluster_now
DetectLargestClusterNow ==
    \E labels \in Labelings(pcd_current) : DetectLargestClusterWith(labels)

\* ------------------------------------------- main thread: the orientation
\* rotate(R, center=(0, 0, 0)) with R of (pi, 0, 0): y and z change sign, up
\* to the rounding of sin(pi)
Rotated(p) == [i \in 1..Len(p) |-> << p[i][1], -p[i][2], -p[i][3] >>]

\* pts[:, [1, 2]] = pts[:, [2, 1]]
SwappedYZ(p) == [i \in 1..Len(p) |-> << p[i][1], p[i][3], p[i][2] >>]

\* the PointCloud object of pcd_current is changed in place to hold q: every
\* reference to that object sees q
MutateCurrent(q) ==
    /\ pcd_current' = q
    /\ pcd' = IF "pcd" \in shares_current THEN q ELSE pcd
    /\ pcd_cleaned' = IF "cleaned" \in shares_current THEN q ELSE pcd_cleaned
    /\ UNCHANGED << src_path, ply_raw, vertex_data0, pcd_original, idx_current,
                    idx_cleaned, cleaned_voxel, mapping_valid_cleaned, cfgVars,
                    btn_run, pc, countVars, startVars, idx_work, steps_done,
                    log, written, app, args, edits, dbscan_out, paramVars,
                    shares_current >>

\* orient_flip_x -> _apply_rotation_xyz(pi, 0, 0)
orient_flip_x ==
    /\ Gui
    /\ pcd_current /= NonePcd
    /\ ops' = ops + 1
    /\ MutateCurrent(Rotated(pcd_current))

\* orient_swap_yz -> _apply_swap_yz: nothing is done on a cloud without points
orient_swap_yz ==
    /\ Gui
    /\ pcd_current /= NonePcd
    /\ ops' = ops + 1
    /\ MutateCurrent(IF Len(pcd_current) = 0 THEN pcd_current
                     ELSE SwappedYZ(pcd_current))

\* the median nearest-neighbour distance of a cloud, in the units of the
\* entries: what KDTreeFlann and np.median return is not computed here, any
\* of these values is possible
DMeds == {0, 8000, 20000}

\* the k of autosuggest_params
KnnK == 8

\* max(d_med * 2.5, 1e-6), max(d_med * 2.0, 1e-6), max(8, int(k))
RadiusSug(d_med) == Max({(d_med * 5) \div 2, 1})
EpsSug(d_med) == Max({d_med * 2, 1})
MinPtsSug == Max({8, KnnK})

\* autosuggest_params: no cloud, or no point with a second neighbour, leaves
\* everything alone; else the three entries are set to the suggestions
AutosuggestParams ==
    /\ Gui
    /\ ops' = ops + 1
    /\ UNCHANGED << sessVars, cleanedVars, mapping_valid_cleaned, cfgVars,
                    btn_run, pc, countVars, startVars, workVars, written, app,
                    args, edits, dbscan_out, shares_current >>
    /\ IF pcd_current = NonePcd \/ pcd_is_empty(pcd_current)
          \/ pcd_n_points(pcd_current) < 2
       THEN UNCHANGED paramVars
       ELSE \E d_med \in DMeds :
              /\ var_rad_r' = RadiusSug(d_med)
              /\ var_db_eps' = EpsSug(d_med)
              /\ var_db_minpts' = MinPtsSug

\* ------------------------------------------------- main thread: the widgets
Edit ==
    /\ Gui
    /\ edits' = edits + 1
    /\ UNCHANGED << sessVars, cleanedVars, mapping_valid_cleaned, btn_run, pc,
                    countVars, startVars, workVars, written, app, args, ops,
                    dbscan_out, paramVars, shares_current >>

\* _on_toggle_gs_mode: turning the mode on empties the voxel entry
ToggleGsMode ==
    /\ Edit
    /\ var_gs_mode' = ~var_gs_mode
    /\ var_voxel' = IF ~var_gs_mode THEN 0 ELSE var_voxel
    /\ UNCHANGED << var_use_rad, var_use_stat, var_keep_largest_on_clean,
                    var_crop_vals, var_stat_nb >>

\* typing into the voxel entry, which is disabled while the mode is on
SetVoxel(v) ==
    /\ Edit
    /\ ~var_gs_mode /\ v /= var_voxel
    /\ var_voxel' = v
    /\ UNCHANGED << var_gs_mode, var_use_rad, var_use_stat,
                    var_keep_largest_on_clean, var_crop_vals, var_stat_nb >>

ToggleUseRad ==
    /\ Edit
    /\ var_use_rad' = ~var_use_rad
    /\ UNCHANGED << var_gs_mode, var_voxel, var_use_stat,
                    var_keep_largest_on_clean, var_crop_vals, var_stat_nb >>

ToggleUseStat ==
    /\ Edit
    /\ var_use_stat' = ~var_use_stat
    /\ UNCHANGED << var_gs_mode, var_voxel, var_use_rad,
                    var_keep_largest_on_clean, var_crop_vals, var_stat_nb >>

ToggleKeepLargest ==
    /\ Edit
    /\ var_keep_largest_on_clean' = ~var_keep_largest_on_clean
    /\ UNCHANGED << var_gs_mode, var_voxel, var_use_rad, var_use_stat,
                    var_crop_vals, var_stat_nb >>

SetCropVals(b) ==
    /\ Edit
    /\ b /= var_crop_vals
    /\ var_crop_vals' = b
    /\ UNCHANGED << var_gs_mode, var_voxel, var_use_rad, var_use_stat,
                    var_keep_largest_on_clean, var_stat_nb >>

SetStatNb(t) ==
    /\ Edit
    /\ t /= var_stat_nb
    /\ var_stat_nb' = t
    /\ UNCHANGED << var_gs_mode, var_voxel, var_use_rad, var_use_stat,
                    var_keep_largest_on_clean, var_crop_vals >>

\* autofill_bounds: the entries get the bounding box of CURRENT
AutofillBounds ==
    /\ Gui
    /\ pcd_current /= NonePcd /\ pcd_n_points(pcd_current) > 0
    /\ var_crop_vals' = AutofillOf(pcd_current)
    /\ UNCHANGED << sessVars, cleanedVars, mapping_valid_cleaned, var_gs_mode,
                    var_voxel, var_use_rad, var_use_stat,
                    var_keep_largest_on_clean, var_stat_nb, btn_run, pc,
                    countVars, startVars, workVars, written, envVars, shares_current >>

\* ----------------------------------------------- main thread: GS-safe export
\* a variant that writes the first len(idx_keep) rows of the table
WriteGsPreservingPrefix(table, idx_keep) ==
    IF table = None \/ Len(idx_keep) = 0 THEN [ok |-> FALSE, rows |-> <<>>]
    ELSE IF Len(idx_keep) > NRows(table) THEN [ok |-> FALSE, rows |-> <<>>]
    ELSE [ok |-> TRUE,
          rows |-> [i \in 1..Len(idx_keep) |-> RowAttr(table, i)]]

\* _write_gs_preserving: the rows of vertex_data0 at the sorted indices;
\* not ok when it raises (no table, empty selection, index outside the table)
WriteGsPreserving(table, idx_keep) ==
    IF table = None \/ Len(idx_keep) = 0 THEN [ok |-> FALSE, rows |-> <<>>]
    ELSE LET sorted == NpSort(idx_keep)
         IN  IF \E i \in 1..Len(sorted) : sorted[i] >= NRows(table)
             THEN [ok |-> FALSE, rows |-> <<>>]
             ELSE [ok |-> TRUE,
                   rows |-> [i \in 1..Len(sorted) |-> RowAttr(table, sorted[i] + 1)]]

\* the two guards of save_cleaned_as_gs
CleanedExportAllowed == idx_cleaned /= NoneIdx /\ mapping_valid_cleaned

\* save_cleaned_as_gs
SaveCleanedAsGs ==
    /\ Gui
    /\ CleanedExportAllowed
    /\ LET out == WriteGsPreserving(vertex_data0, idx_cleaned)
       IN  /\ out.ok
           /\ written' = [what |-> "cleaned", rows |-> out.rows,
                          voxel |-> cleaned_voxel]
    /\ UNCHANGED << sessVars, cleanedVars, mapping_valid_cleaned, cfgVars,
                    btn_run, pc, countVars, startVars, workVars, envVars, shares_current >>

\* save_current_as_gs: the voxel entry is reset in GS mode, then the rows at
\* idx_current are written unless _write_gs_preserving raises; idx_keep_sorted
\* is idx_current itself, so its sort is in place
SaveCurrentAsGs ==
    /\ Gui
    /\ idx_current /= NoneIdx /\ vertex_data0 /= None
    /\ var_voxel' = IF var_gs_mode /\ var_voxel > 0 THEN 0 ELSE var_voxel
    /\ idx_current' = IF Len(idx_current) = 0 THEN idx_current
                      ELSE NpSort(idx_current)
    /\ LET out == WriteGsPreserving(vertex_data0, idx_current)
       IN  written' = IF out.ok
                      THEN [what |-> "current", rows |-> out.rows, voxel |-> FALSE]
                      ELSE written
    /\ UNCHANGED << src_path, ply_raw, vertex_data0, pcd_original, pcd_current,
                    cleanedVars, mapping_valid_cleaned, var_gs_mode, var_use_rad,
                    var_use_stat, var_keep_largest_on_clean, var_crop_vals,
                    var_stat_nb, btn_run, pc, countVars, startVars, workVars,
                    envVars, shares_current >>

\* ------------------------------------------------ the steps of _clean_proc
\* Each gives the working cloud and indices after the step and how it ended:
\* "applied", "rejected" (the filter left nothing: rollback), "noop", or
\* "raised" (numpy's IndexError, caught by the except clause of the run).

\* 1) voxel, lines 873-884, given what voxel_down_sample returned
CleanVoxelResult(p, idx, out) ==
    IF pcd_is_empty(out)
    THEN [pcd |-> p, idx |-> idx, out |-> "rejected"]
    ELSE [pcd |-> out, idx |-> idx, out |-> "applied"]

\* a variant of the outlier steps that indexes idx_work before it looks at
\* the size of the result
CleanOutlierResultNoRollback(p, idx, ind) ==
    IF Len(ind) = 0
    THEN [pcd |-> p, idx |-> Take(idx, ind), out |-> "rejected"]
    ELSE IF IndexOK(idx, ind)
    THEN [pcd |-> Take(p, ind), idx |-> Take(idx, ind), out |-> "applied"]
    ELSE [pcd |-> Take(p, ind), idx |-> idx, out |-> "raised"]

\* 2) radius and 3) statistical, lines 891-902 and 909-920, given ind
CleanOutlierResult(p, idx, ind) ==
    IF Len(ind) = 0
    THEN [pcd |-> p, idx |-> idx, out |-> "rejected"]
    ELSE IF IndexOK(idx, ind)
    THEN [pcd |-> Take(p, ind), idx |-> Take(idx, ind), out |-> "applied"]
    ELSE [pcd |-> Take(p, ind), idx |-> idx, out |-> "raised"]

\* 4) DBSCAN largest, lines 927-945, given the labels
CleanDbscanResult(p, idx, labels) ==
    IF HasCluster(labels)
    THEN LET keep_local == Where(labels, BestLabel(labels))
             pcd_tmp == Take(p, keep_local)
         IN  IF pcd_is_empty(pcd_tmp)
             THEN [pcd |-> p, idx |-> idx, out |-> "rejected"]
             ELSE IF IndexOK(idx, keep_local)
             THEN [pcd |-> pcd_tmp, idx |-> Take(idx, keep_local),
                   out |-> "applied"]
             ELSE [pcd |-> pcd_tmp, idx |-> idx, out |-> "raised"]
    ELSE [pcd |-> p, idx |-> idx, out |-> "noop"]

\* 5) crop, lines 950-964
CleanCropResult(p, idx, b) ==
    LET keep_local == CropKeep(p, b)
    IN  IF Len(keep_local) = 0
        THEN [pcd |-> p, idx |-> idx, out |-> "rejected"]
        ELSE IF IndexOK(idx, keep_local)
        THEN [pcd |-> Take(p, keep_local), idx |-> Take(idx, keep_local),
              out |-> "applied"]
        ELSE [pcd |-> Take(p, keep_local), idx |-> idx, out |-> "raised"]

\* a variant that counts the cluster no-op like a rejected step
AdvancesApplied(out) == out = "applied"

\* steps_done += 1 after an applied step and after the cluster no-op
Advances(out) == out \in {"applied", "noop"}

\* a variant in which an exception leaves the thread without reaching the
\* except and finally clauses
AfterStepEscapes(out, next) == IF out = "raised" THEN "dead" ELSE next

\* where the run goes after a step
AfterStep(out, next) == IF out = "raised" THEN "except" ELSE next

\* the common ending of a step that ran
Ran(step, r, next) ==
    /\ pcd' = r.pcd
    /\ idx_work' = r.idx
    /\ steps_done' = IF Advances(r.out) THEN steps_done + 1 ELSE steps_done
    /\ log' = Append(log, << step, r.out >>)
    /\ pc' = AfterStep(r.out, next)
    /\ shares_current' = IF r.out \in {"rejected", "noop"} THEN shares_current
                         ELSE shares_current \ {"pcd"}

Skipped(next) ==
    /\ pc' = next
    /\ UNCHANGED << workVars, shares_current >>

\* ------------------------------------------------------- the worker thread
\* a variant of run_clean that leaves the button enabled
RunCleanNoDisable ==
    /\ Gui
    /\ btn_run = "normal"
    /\ pcd_current /= NonePcd
    /\ ops' = ops + 1
    /\ pc' = "start"
    /\ cleaned_start' = << pcd_cleaned, idx_cleaned, mapping_valid_cleaned,
                           ops' >>
    /\ UNCHANGED << sessVars, cleanedVars, mapping_valid_cleaned, cfgVars,
                    btn_run, countVars, pcd_start, idx_start, workVars, written,
                    app, args, edits, dbscan_out, paramVars, shares_current >>

\* run_clean: pressed on the enabled button only; the button is disabled and
\* the thread started
RunClean ==
    /\ Gui
    /\ btn_run = "normal"
    /\ pcd_current /= NonePcd
    /\ ops' = ops + 1
    /\ btn_run' = "disabled"
    /\ pc' = "start"
    /\ cleaned_start' = << pcd_cleaned, idx_cleaned, mapping_valid_cleaned,
                           ops' >>
    /\ UNCHANGED << sessVars, cleanedVars, mapping_valid_cleaned, cfgVars,
                    countVars, pcd_start, idx_start, workVars, written, app,
                    args, edits, dbscan_out, paramVars, shares_current >>

\* a variant of clone_pcd that hands back the object it is given
clone_pcdSame(shares) == shares \cup {"pcd"}

\* clone_pcd (lines 95-96): p.clone() or deepcopy(p), a new object; the
\* worker's pcd does not hold the object of pcd_current
clone_pcd(shares) == shares \ {"pcd"}

\* line 842: pcd = clone_pcd(self.pcd_current)
CleanClonePcd ==
    /\ pc = "start"
    /\ pcd' = pcd_current
    /\ shares_current' = clone_pcd(shares_current)
    /\ pcd_start' = pcd_current
    /\ pc' = "snap"
    /\ UNCHANGED << sessVars, cleanedVars, mapping_valid_cleaned, cfgVars,
                    btn_run, countVars, idx_start, cleaned_start, idx_work,
                    steps_done, log,
                    written, envVars >>

\* lines 843-846: idx_work = self.idx_current.copy(); gs_mode is read
CleanCopyIdx ==
    /\ pc = "snap"
    /\ idx_work' = idx_current
    /\ idx_start' = idx_current
    /\ gs_mode' = var_gs_mode
    /\ pc' = "count"
    /\ UNCHANGED << sessVars, cleanedVars, mapping_valid_cleaned, cfgVars,
                    btn_run, voxel_size, steps_total, do_crop, bounds,
                    pcd_start, cleaned_start, pcd, steps_done, log, written,
                    envVars, shares_current >>

\* a variant that leaves the voxel size alone in GS mode
VoxelSizeForRunKept(gs, v) == v

\* lines 868-870: the GS mode switches the voxel step off
VoxelSizeForRun(gs, v) == IF gs /\ v > 0 THEN 0 ELSE v

\* a variant that clears the flag whenever the voxel step ran
MappingAfterVoxelAlways(out, flag) == FALSE

\* lines 877-881: only the else branch sets mapping_valid_cleaned = False
MappingAfterVoxel(out, flag) == IF out = "applied" THEN FALSE ELSE flag

\* steps_total of lines 848-862, counted from the widgets as they are now
StepsTotal ==
    LET n == (IF var_voxel > 0 THEN 1 ELSE 0)
             + (IF var_use_rad THEN 1 ELSE 0)
             + (IF var_use_stat THEN 1 ELSE 0)
             + (IF ~var_crop_vals.blank /\ BoundsValid(var_crop_vals) THEN 1 ELSE 0)
             + (IF var_keep_largest_on_clean THEN 1 ELSE 0)
    IN  IF n > 1 THEN n ELSE 1

\* lines 848-870: the step count, the bounds (a ValueError skips the crop),
\* mapping_valid_cleaned = True, and the GS mode switching the voxel step off
CleanCount ==
    /\ pc = "count"
    /\ steps_total' = StepsTotal
    /\ do_crop' = (~var_crop_vals.blank /\ BoundsValid(var_crop_vals))
    /\ bounds' = IF ~var_crop_vals.blank /\ BoundsValid(var_crop_vals)
                 THEN var_crop_vals ELSE BlankEntries
    /\ steps_done' = 0
    /\ mapping_valid_cleaned' = TRUE
    /\ voxel_size' = VoxelSizeForRun(gs_mode, var_voxel)
    /\ pc' = "voxel"
    /\ UNCHANGED << sessVars, cleanedVars, cfgVars, btn_run, gs_mode,
                    startVars, pcd, idx_work, log, written, envVars, shares_current >>

\* what a step of the run leaves alone
StepFrame ==
    UNCHANGED << sessVars, cleanedVars, cfgVars, btn_run, countVars,
                 startVars, written, envVars >>

\* lines 872-884
CleanVoxel ==
    /\ pc = "voxel"
    /\ StepFrame
    /\ \/ /\ voxel_size > 0
          /\ \E out \in VoxelOutcomes(pcd, voxel_size) :
               LET r == CleanVoxelResult(pcd, idx_work, out)
               IN  /\ Ran("voxel", r, "radius")
                   /\ mapping_valid_cleaned' =
                        MappingAfterVoxel(r.out, mapping_valid_cleaned)
       \/ /\ ~(voxel_size > 0)
          /\ Skipped("radius")
          /\ UNCHANGED mapping_valid_cleaned

\* lines 886-902
CleanRadius ==
    /\ pc = "radius"
    /\ StepFrame
    /\ UNCHANGED mapping_valid_cleaned
    /\ \/ /\ var_use_rad
          /\ \E ind \in OutlierInd(pcd) :
               Ran("radius", CleanOutlierResult(pcd, idx_work, ind), "stat")
       \/ /\ ~var_use_rad
          /\ Skipped("stat")

\* lines 904-920: int(self.var_stat_nb.get()) may raise ValueError
CleanStat ==
    /\ pc = "stat"
    /\ StepFrame
    /\ UNCHANGED mapping_valid_cleaned
    /\ \/ /\ var_use_stat /\ IntParses(var_stat_nb)
          /\ \E ind \in OutlierInd(pcd) :
               Ran("stat", CleanOutlierResult(pcd, idx_work, ind), "dbscan")
       \/ /\ var_use_stat /\ ~IntParses(var_stat_nb)
          /\ pc' = "except"
          /\ log' = Append(log, << "stat", "raised" >>)
          /\ UNCHANGED << pcd, idx_work, steps_done, shares_current >>
       \/ /\ ~var_use_stat
          /\ Skipped("dbscan")

\* lines 922-945, given the labels cluster_dbscan returns
CleanDbscanWith(labels) ==
    /\ pc = "dbscan"
    /\ StepFrame
    /\ UNCHANGED mapping_valid_cleaned
    /\ \/ /\ var_keep_largest_on_clean
          /\ Ran("dbscan", CleanDbscanResult(pcd, idx_work, labels), "crop")
       \/ /\ ~var_keep_largest_on_clean
          /\ Skipped("crop")

\* lines 922-945
CleanDbscan == \E labels \in Labelings(pcd) : CleanDbscanWith(labels)

\* lines 947-964
CleanCrop ==
    /\ pc = "crop"
    /\ StepFrame
    /\ UNCHANGED mapping_valid_cleaned
    /\ \/ /\ do_crop
          /\ Ran("crop", CleanCropResult(pcd, idx_work, bounds), "result")
       \/ /\ ~do_crop
          /\ Skipped("result")

\* did the run whose log this is apply the voxel step
VoxelApplied(l) == \E i \in 1..Len(l) : l[i] = << "voxel", "applied" >>

\* line 967: self.pcd_cleaned = pcd, the object the worker holds
CleanSetPcdCleaned ==
    /\ pc = "result"
    /\ pcd_cleaned' = pcd
    /\ shares_current' = IF "pcd" \in shares_current
                         THEN shares_current \cup {"cleaned"}
                         ELSE shares_current \ {"cleaned"}
    /\ pc' = "result_idx"
    /\ UNCHANGED << sessVars, idx_cleaned, cleaned_voxel, mapping_valid_cleaned,
                    cfgVars, btn_run, countVars, startVars, workVars, written,
                    envVars >>

\* line 968: self.idx_cleaned = idx_work
CleanSetIdxCleaned ==
    /\ pc = "result_idx"
    /\ idx_cleaned' = idx_work
    /\ cleaned_voxel' = VoxelApplied(log)
    /\ pc' = "finally"
    /\ UNCHANGED << sessVars, pcd_cleaned, mapping_valid_cleaned, cfgVars,
                    btn_run, countVars, startVars, workVars, written, envVars, shares_current >>

\* lines 985-988: the error is shown and logged
CleanExcept ==
    /\ pc = "except"
    /\ pc' = "finally"
    /\ UNCHANGED << sessVars, cleanedVars, mapping_valid_cleaned, cfgVars,
                    btn_run, countVars, startVars, workVars, written, envVars, shares_current >>

\* lines 989-990: the button is enabled again and the thread ends
CleanFinally ==
    /\ Gui /\ pc = "finally"
    /\ btn_run' = "normal"
    /\ pc' = "idle"
    /\ pcd' = NonePcd /\ idx_work' = NoneIdx
    /\ gs_mode' = FALSE /\ voxel_size' = 0 /\ steps_total' = 0 /\ steps_done' = 0
    /\ do_crop' = FALSE /\ bounds' = BlankEntries /\ log' = <<>>
    /\ pcd_start' = NonePcd /\ idx_start' = NoneIdx
    /\ cleaned_start' = NoStart
    /\ shares_current' = shares_current \ {"pcd"}
    /\ UNCHANGED << sessVars, cleanedVars, mapping_valid_cleaned, cfgVars,
                    written, envVars >>

\* the worker thread's steps
NextWorker ==
    \/ CleanClonePcd
    \/ CleanCopyIdx
    \/ CleanCount
    \/ CleanVoxel
    \/ CleanRadius
    \/ CleanStat
    \/ CleanDbscan
    \/ CleanCrop
    \/ CleanSetPcdCleaned
    \/ CleanSetIdxCleaned
    \/ CleanExcept
    \/ CleanFinally

\* the user's actions, at most MaxOps on the session and MaxEdits on widgets
NextUser ==
    \/ ops < MaxOps /\ \E f \in Files : LoadPath(f)
    \/ ops < MaxOps /\ ResetToOriginal
    \/ ops < MaxOps /\ DetectLargestClusterNow
    \/ ops < MaxOps /\ RunClean
    \/ edits < MaxEdits /\ ToggleGsMode
    \/ edits < MaxEdits /\ \E v \in VoxelSizes : SetVoxel(v)
    \/ edits < MaxEdits /\ ToggleUseRad
    \/ edits < MaxEdits /\ ToggleUseStat
    \/ edits < MaxEdits /\ ToggleKeepLargest
    \/ edits < MaxEdits /\ \E b \in CropEntries : SetCropVals(b)
    \/ edits < MaxEdits /\ \E t \in StatNbTexts : SetStatNb(t)
    \/ SaveCleanedAsGs

NextGui == NextUser \/ NextWorker

\* ------------------------------------------------------ pointnuker_cli.py
\* The filter functions, given what Open3D returned: the (pcd, idx) pair they
\* return and what they printed.
radius_outlier_removal(p, idx, ind) ==
    IF Len(ind) = 0
    THEN [pcd |-> p, idx |-> idx, out |-> "rejected"]
    ELSE [pcd |-> Take(p, ind), idx |-> Take(idx, ind), out |-> "applied"]

\* a variant that indexes idx before the len(ind) == 0 test
statistical_outlier_removalNoRollback(p, idx, ind) ==
    IF Len(ind) = 0
    THEN [pcd |-> p, idx |-> Take(idx, ind), out |-> "rejected"]
    ELSE [pcd |-> Take(p, ind), idx |-> Take(idx, ind), out |-> "applied"]

statistical_outlier_removal(p, idx, ind) ==
    IF Len(ind) = 0
    THEN [pcd |-> p, idx |-> idx, out |-> "rejected"]
    ELSE [pcd |-> Take(p, ind), idx |-> Take(idx, ind), out |-> "applied"]

dbscan_largest_cluster(p, idx, labels) ==
    IF ~HasCluster(labels)
    THEN [pcd |-> p, idx |-> idx, out |-> "noop"]
    ELSE LET idx_local == Where(labels, BestLabel(labels))
         IN  [pcd |-> Take(p, idx_local), idx |-> Take(idx, idx_local),
              out |-> "applied"]

aabb_crop(p, idx, b) ==
    LET keep_local == CropKeep(p, b)
    IN  IF Len(keep_local) = 0
        THEN [pcd |-> p, idx |-> idx, out |-> "rejected"]
        ELSE [pcd |-> Take(p, keep_local), idx |-> Take(idx, keep_local),
              out |-> "applied"]

\* save_ply_gs_safe: vertex_data[sorted idx_keep]
save_ply_gs_safe(table, idx_keep) ==
    LET sorted == NpSort(idx_keep)
    IN  [i \in 1..Len(sorted) |-> RowAttr(table, sorted[i] + 1)]

\* argparse: any flags, any input file, the six bounds given or not
ArgSets ==
    [input : Files, dbscan : BOOLEAN, radius_outlier : BOOLEAN,
     stat_outlier : BOOLEAN, crop : BOOLEAN, box : CropEntries]

\* main() after parser.parse_args()
InitCliAt(argSets, at) ==
    /\ app = "cli"
    /\ args \in argSets
    /\ pc = at
    /\ src_path = None /\ ply_raw = None /\ vertex_data0 = None
    /\ pcd_original = NonePcd /\ pcd_current = NonePcd /\ idx_current = NoneIdx
    /\ pcd_cleaned = NonePcd /\ idx_cleaned = NoneIdx
    /\ mapping_valid_cleaned = TRUE
    /\ var_gs_mode = TRUE
    /\ var_voxel = 0
    /\ var_use_rad = TRUE /\ var_use_stat = TRUE
    /\ var_keep_largest_on_clean = TRUE
    /\ var_crop_vals = BlankEntries
    /\ var_stat_nb = "20"
    /\ btn_run = "normal"
    /\ pcd = NonePcd /\ idx_work = NoneIdx
    /\ gs_mode = FALSE /\ voxel_size = 0 /\ steps_total = 0 /\ steps_done = 0
    /\ do_crop = FALSE /\ bounds = BlankEntries /\ log = <<>>
    /\ written = NoWrite
    /\ pcd_start = NonePcd /\ idx_start = NoneIdx /\ cleaned_voxel = FALSE
    /\ cleaned_start = NoStart
    /\ ops = 0 /\ edits = 0
    /\ var_rad_r = RadiusEntry0 /\ var_db_eps = EpsEntry0
    /\ var_db_minpts = MinPtsEntry0
    /\ shares_current = {}

\* a command line without --preset: main() goes on to its argument checks
InitCli == InitCliAt(ArgSets, "cli_args")

\* what no CLI step touches
CliFrame ==
    UNCHANGED << src_path, pcd_original, pcd_current, idx_current, cleanedVars,
                 mapping_valid_cleaned, cfgVars, btn_run, countVars, envVars >>

\* lines 221-236: --crop without all six bounds exits; load_ply_gs_safe raises
\* on a file without vertex element, rows or x/y/z; else the identity mapping
CliLoad ==
    /\ pc = "cli_args"
    /\ CliFrame
    /\ UNCHANGED shares_current
    /\ UNCHANGED << steps_done, log, written >>
    /\ IF (args.crop /\ args.box.blank) \/ ~HasVertex(args.input)
          \/ NRows(args.input) = 0 \/ ~HasXYZ(args.input)
       THEN /\ pc' = "cli_exit"
            /\ UNCHANGED << ply_raw, vertex_data0, pcd, idx_work, startVars >>
       ELSE /\ pc' = "cli_dbscan"
            /\ ply_raw' = args.input
            /\ vertex_data0' = args.input
            /\ pcd' = StackXYZ(args.input)
            /\ idx_work' = Arange(NRows(args.input))
            /\ pcd_start' = StackXYZ(args.input)
            /\ idx_start' = Arange(NRows(args.input))
            /\ UNCHANGED cleaned_start

CliStepFrame ==
    /\ CliFrame
    /\ UNCHANGED << ply_raw, vertex_data0, startVars, written >>

\* lines 239-240, given the labels cluster_dbscan returns
CliDbscanWith(labels) ==
    /\ pc = "cli_dbscan"
    /\ CliStepFrame
    /\ \/ /\ args.dbscan
          /\ Ran("dbscan", dbscan_largest_cluster(pcd, idx_work, labels),
                 "cli_radius")
       \/ /\ ~args.dbscan
          /\ Skipped("cli_radius")

\* lines 239-240
CliDbscan == \E labels \in Labelings(pcd) : CliDbscanWith(labels)

\* lines 242-243
CliRadius ==
    /\ pc = "cli_radius"
    /\ CliStepFrame
    /\ \/ /\ args.radius_outlier
          /\ \E ind \in OutlierInd(pcd) :
               Ran("radius", radius_outlier_removal(pcd, idx_work, ind),
                   "cli_stat")
       \/ /\ ~args.radius_outlier
          /\ Skipped("cli_stat")

\* lines 245-246
CliStat ==
    /\ pc = "cli_stat"
    /\ CliStepFrame
    /\ \/ /\ args.stat_outlier
          /\ \E ind \in OutlierInd(pcd) :
               Ran("stat", statistical_outlier_removal(pcd, idx_work, ind),
                   "cli_crop")
       \/ /\ ~args.stat_outlier
          /\ Skipped("cli_crop")

\* lines 248-251
CliCrop ==
    /\ pc = "cli_crop"
    /\ CliStepFrame
    /\ \/ /\ args.crop
          /\ Ran("crop", aabb_crop(pcd, idx_work, args.box), "cli_save")
       \/ /\ ~args.crop
          /\ Skipped("cli_save")

\* lines 253-265
CliSave ==
    /\ pc = "cli_save"
    /\ CliFrame
    /\ written' = [what |-> "cli", rows |-> save_ply_gs_safe(vertex_data0, idx_work),
                   voxel |-> FALSE]
    /\ pc' = "cli_done"
    /\ UNCHANGED << ply_raw, vertex_data0, startVars, workVars,
                    shares_current >>

NextCli ==
    \/ CliLoad
    \/ CliDbscan
    \/ CliRadius
    \/ CliStat
    \/ CliCrop
    \/ CliSave

\* cluster_dbscan's answers are left open
AnyDbscan == dbscan_out = << >>

Init == (InitGui \/ InitCli) /\ AnyDbscan

\* the GUI alone
InitSession == InitGui /\ AnyDbscan
Next == NextGui \/ NextCli
Spec == Init /\ [][Next]_vars

\* ------------------------------------------------ the GS mode and the voxel
\* The GUI with loads of well-formed files, clean runs, the GS checkbox and
\* the voxel entry only, and room for two widget edits while a run is between
\* line 846 (gs_mode read) and line 849 (voxel size read).
MaxGsEdits == 2

NextGsUser ==
    \/ ops < MaxOps /\ \E f \in GoodFiles : LoadPath(f)
    \/ ops < MaxOps /\ RunClean
    \/ edits < MaxGsEdits /\ ToggleGsMode
    \/ edits < MaxGsEdits /\ \E v \in VoxelSizes : SetVoxel(v)

NextGs == NextGsUser \/ NextWorker
SpecGs == InitSession /\ [][NextGs]_vars

\* ------------------------------------------------- loads, resets and runs
\* The GUI with loads of a well-formed file and of a file with a vertex
\* element of zero rows, resets and clean runs, and room for four of them.
MaxReloadOps == 4

ReloadFiles == {"A", "Z"}

NextReloadUser ==
    \/ ops < MaxReloadOps /\ \E f \in ReloadFiles : LoadPath(f)
    \/ ops < MaxReloadOps /\ ResetToOriginal
    \/ ops < MaxReloadOps /\ RunClean

NextReload == NextReloadUser \/ NextWorker
SpecReload == InitSession /\ [][NextReload]_vars

\* ------------------------------------------------------ loads and exports
\* The GUI with loads of every kind of file, resets, cluster selections,
\* clean runs and both GS-safe exports, and the CLI.
MaxExportOps == 3

NextExportUser ==
    \/ ops < MaxExportOps /\ \E f \in Files : LoadPath(f)
    \/ ops < MaxExportOps /\ ResetToOriginal
    \/ ops < MaxExportOps /\ DetectLargestClusterNow
    \/ ops < MaxExportOps /\ RunClean
    \/ SaveCurrentAsGs
    \/ SaveCleanedAsGs

NextExport == NextExportUser \/ NextWorker \/ NextCli
SpecExport == Init /\ [][NextExport]_vars

\* ------------------------------------------------------ autofill and crop
\* The GUI with loads of a flat and of a solid file, cluster selections,
\* clean runs and the autofill of the crop entries.
MaxCropOps == 3

CropFiles == {"A", "C"}

NextCropUser ==
    \/ ops < MaxCropOps /\ \E f \in CropFiles : LoadPath(f)
    \/ ops < MaxCropOps /\ DetectLargestClusterNow
    \/ ops < MaxCropOps /\ RunClean
    \/ AutofillBounds

NextCrop == NextCropUser \/ NextWorker
SpecCrop == InitSession /\ [][NextCrop]_vars

\* ------------------------------------------------------ the CLI's presets
\* --eps with its built-in default 1.5 (in tenths), and a second value
EpsDefault == 15
EpsValues == {EpsDefault, 20}

\* a command line: --eps absent (<< >>) or given with a value (<< v >>),
\* --dbscan present or not, --preset absent or naming a preset
CommandLines ==
    [eps : {<< >>} \cup {<< v >> : v \in EpsValues}, dbscan : BOOLEAN,
     preset : {None, "tight", "loose", "missing"}]

\* load_presets(): the preset store, as the save at lines 275-297 writes it
Presets ==
    [name \in {"tight", "loose"} |->
        IF name = "tight" THEN [dbscan |-> TRUE, eps |-> 20]
        ELSE [dbscan |-> TRUE, eps |-> EpsDefault]]

\* parser.get_default(key) for the options a preset can hold
GetDefault(key) == IF key = "eps" THEN EpsDefault ELSE FALSE

\* parser.parse_args(): an absent option takes its default; the namespace
\* does not record which options were given (argv keeps the command line
\* itself, for the properties)
ParseArgs(f, cl) ==
    [input |-> f, dbscan |-> cl.dbscan, radius_outlier |-> FALSE,
     stat_outlier |-> FALSE, crop |-> FALSE, box |-> BlankEntries,
     eps |-> IF cl.eps = << >> THEN EpsDefault ELSE cl.eps[1],
     preset |-> cl.preset, argv |-> cl]

PresetArgSets == {ParseArgs(f, cl) : f \in GoodFiles, cl \in CommandLines}

\* lines 215-219: a preset value replaces every option whose parsed value
\* equals the parser's default
ApplyPreset(a, preset) ==
    [key \in DOMAIN a |->
        IF key \in DOMAIN preset /\ a[key] = GetDefault(key)
        THEN preset[key] ELSE a[key]]

\* lines 203-219
CliPreset ==
    /\ pc = "cli_preset"
    /\ UNCHANGED << sessVars, cleanedVars, mapping_valid_cleaned, cfgVars,
                    btn_run, countVars, startVars, workVars, written, app,
                    ops, edits, dbscan_out, paramVars, shares_current >>
    /\ IF args.preset = None
       THEN pc' = "cli_args" /\ UNCHANGED args
       ELSE IF args.preset \notin DOMAIN Presets
       THEN pc' = "cli_exit" /\ UNCHANGED args
       ELSE /\ pc' = "cli_args"
            /\ args' = ApplyPreset(args, Presets[args.preset])

InitPreset == InitCliAt(PresetArgSets, "cli_preset") /\ AnyDbscan
NextPreset == CliPreset \/ NextCli
SpecPreset == InitPreset /\ [][NextPreset]_vars

\* The GUI with loads, cluster finder, clean runs and the parameter advisor.
MaxAdvisorOps == 3

AdvisorFiles == {"A", "Z"}

NextAdvisorUser ==
    \/ ops < MaxAdvisorOps /\ \E f \in AdvisorFiles : LoadPath(f)
    \/ ops < MaxAdvisorOps /\ DetectLargestClusterNow
    \/ ops < MaxAdvisorOps /\ RunClean
    \/ ops < MaxAdvisorOps /\ AutosuggestParams

NextAdvisor == NextAdvisorUser \/ NextWorker
SpecAdvisor == InitSession /\ [][NextAdvisor]_vars

\* The GUI with a load, cluster finder, clean runs and the two orientation
\* buttons.
MaxSnapOps == 3

NextSnapUser ==
    \/ ops < MaxSnapOps /\ LoadPath("A")
    \/ ops < MaxSnapOps /\ DetectLargestClusterNow
    \/ ops < MaxSnapOps /\ RunClean
    \/ ops < MaxSnapOps /\ orient_flip_x
    \/ ops < MaxSnapOps /\ orient_swap_yz

NextSnap == NextSnapUser \/ NextWorker
SpecSnap == InitSession /\ [][NextSnap]_vars

\* The GUI with the worker thread scheduled: a started thread that can take a
\* step eventually takes one.  Loads, runs, and edits of the entries that
\* decide what the steps do.
MaxLiveOps == 3

NextLiveUser ==
    \/ ops < MaxLiveOps /\ \E f \in GoodFiles : LoadPath(f)
    \/ ops < MaxLiveOps /\ RunClean
    \/ edits < MaxEdits /\ \E v \in VoxelSizes : SetVoxel(v)
    \/ edits < MaxEdits /\ \E b \in CropEntries : SetCropVals(b)
    \/ edits < MaxEdits /\ \E t \in StatNbTexts : SetStatNb(t)

NextLive == NextLiveUser \/ NextWorker
SpecLive == InitSession /\ [][NextLive]_vars /\ WF_vars(NextWorker)

\* The GUI with loads, clean runs and edits of the voxel entry and of the
\* neighbours entry of the statistical filter: room for a run that applies
\* the voxel step and then fails on the neighbours entry.
MaxErrorOps == 3
MaxErrorEdits == 2

NextErrorUser ==
    \/ ops < MaxErrorOps /\ \E f \in GoodFiles : LoadPath(f)
    \/ ops < MaxErrorOps /\ RunClean
    \/ edits < MaxErrorEdits /\ \E v \in VoxelSizes : SetVoxel(v)
    \/ edits < MaxErrorEdits /\ \E t \in StatNbTexts : SetStatNb(t)

NextError == NextErrorUser \/ NextWorker
SpecError == InitSession /\ [][NextError]_vars

\* The GUI with loads, clean runs, the three filter checkboxes and the
\* neighbours entry, and room for two changes around the step count of a run.
MaxProgressOps == 2
MaxProgressEdits == 2

NextProgressUser ==
    \/ ops < MaxProgressOps /\ \E f \in GoodFiles : LoadPath(f)
    \/ ops < MaxProgressOps /\ RunClean
    \/ edits < MaxProgressEdits /\ ToggleUseRad
    \/ edits < MaxProgressEdits /\ ToggleUseStat
    \/ edits < MaxProgressEdits /\ ToggleKeepLargest
    \/ edits < MaxProgressEdits /\ \E t \in StatNbTexts : SetStatNb(t)

NextProgress == NextProgressUser \/ NextWorker
SpecProgress == InitSession /\ [][NextProgress]_vars

\* The GUI with loads of the two well-formed files, resets, clean runs and
\* the GS-safe export of CLEANED: room for a load or a reset while a run is
\* under way, and for an export after it.
MaxStaleOps == 3

NextStaleUser ==
    \/ ops < MaxStaleOps /\ \E f \in GoodFiles : LoadPath(f)
    \/ ops < MaxStaleOps /\ ResetToOriginal
    \/ ops < MaxStaleOps /\ RunClean
    \/ SaveCleanedAsGs

NextStale == NextStaleUser \/ NextWorker
SpecStale == InitSession /\ [][NextStale]_vars

\* Cluster selection with the answer of cluster_dbscan fixed in advance:
\* dbscan_out holds one label per position of the largest cloud, and a cloud
\* of n points is answered with its first n labels.  The GUI with loads,
\* cluster finder and clean runs; the CLI with --dbscan.
MaxClusterOps == 3

LabelsFor(p) == SubSeq(dbscan_out, 1, Len(p))

InitCluster ==
    /\ dbscan_out \in [1..NPts -> Labels]
    /\ \/ InitGui
       \/ InitCli /\ args.input \in GoodFiles /\ args.dbscan /\ ~args.crop
                  /\ args.box = BlankEntries

NextClusterUser ==
    \/ ops < MaxClusterOps /\ \E f \in GoodFiles : LoadPath(f)
    \/ ops < MaxClusterOps /\ pcd_current /= NonePcd
          /\ DetectLargestClusterWith(LabelsFor(pcd_current))
    \/ ops < MaxClusterOps /\ RunClean
    \/ edits < MaxEdits /\ ToggleKeepLargest

NextClusterWorker ==
    \/ CleanClonePcd
    \/ CleanCopyIdx
    \/ CleanCount
    \/ CleanVoxel
    \/ CleanRadius
    \/ CleanStat
    \/ pc = "dbscan" /\ CleanDbscanWith(LabelsFor(pcd))
    \/ CleanCrop
    \/ CleanSetPcdCleaned
    \/ CleanSetIdxCleaned
    \/ CleanExcept
    \/ CleanFinally

NextClusterCli ==
    \/ CliLoad
    \/ pc = "cli_dbscan" /\ CliDbscanWith(LabelsFor(pcd))
    \/ CliRadius
    \/ CliStat
    \/ CliCrop
    \/ CliSave

NextCluster == NextClusterUser \/ NextClusterWorker \/ NextClusterCli
SpecCluster == InitCluster /\ [][NextCluster]_vars

\* ================================================================ properties
Last(l) == l[Len(l)]

\* the run ended in the except clause
Raised(l) == Len(l) > 0 /\ Last(l)[2] = "raised"

\* a GUI run has passed line 968 without an exception
GuiRunPublished == Gui /\ pc = "finally" /\ ~Raised(log)

\* (p, idx) pairs each point with its original index as (p0, idx0) did
Corresponds(p, idx, p0, idx0) ==
    /\ Len(p) = Len(idx)
    /\ \A i \in 1..Len(idx) :
         \E j \in 1..Len(idx0) :
            /\ idx0[j] = idx[i]
            /\ j <= Len(p0)
            /\ p0[j] = p[i]

\* a strictly increasing subsequence of 0..n-1
KeptIndexSeq(idx, n) ==
    /\ StrictlyIncreasing(idx)
    /\ \A i \in 1..Len(idx) : idx[i] >= 0 /\ idx[i] < n

\* C1: at the end of a clean run (GUI) or CLI run with the mapping-valid flag
\* true, the cleaned points and the kept indices have the same length and
\* cleaned point i is the point of the run's starting set whose original
\* index is kept_index[i].
C1_IndexCorrespondence ==
    /\ (GuiRunPublished /\ mapping_valid_cleaned
            /\ pcd_cleaned /= NonePcd /\ idx_cleaned /= NoneIdx)
         => Corresponds(pcd_cleaned, idx_cleaned, pcd_start, idx_start)
    /\ pc = "cli_done" => Corresponds(pcd, idx_work, pcd_start, idx_start)

\* C2: after any sequence of loads, cluster-finder selections, resets and
\* clean runs on an N-point input, idx_current, idx_cleaned and the CLI's idx
\* are strictly increasing subsequences of 0..N-1.
C2_KeptIndexSeq ==
    /\ (Gui /\ idx_current /= NoneIdx)
         => KeptIndexSeq(idx_current, pcd_n_points(pcd_original))
    /\ (Gui /\ idx_cleaned /= NoneIdx)
         => KeptIndexSeq(idx_cleaned, pcd_n_points(pcd_original))
    /\ (app = "cli" /\ idx_work /= NoneIdx)
         => KeptIndexSeq(idx_work, pcd_n_points(pcd_start))

\* the positions of a run from the first step to its end
RunPcs == {"voxel", "radius", "stat", "dbscan", "crop", "result",
           "result_idx", "except", "finally"}
CliPcs == {"cli_dbscan", "cli_radius", "cli_stat", "cli_crop", "cli_save",
           "cli_done"}

\* this transition is a step of a run that was rejected
RejectedNow(steps) ==
    /\ Len(log') = Len(log) + 1
    /\ Last(log')[1] \in steps
    /\ Last(log')[2] = "rejected"

\* C3: when the voxel, radius, statistical or crop step would leave zero
\* points (GUI pipeline or CLI function), the working points, the working
\* indices and the mapping-valid flag after the step equal those before it.
C3_Rollback ==
    [][RejectedNow({"voxel", "radius", "stat", "crop"})
         => /\ pcd' = pcd
            /\ idx_work' = idx_work
            /\ mapping_valid_cleaned' = mapping_valid_cleaned]_vars

C3_Witness ==
    /\ Gui /\ pc = "stat"
    /\ Len(log) > 0 /\ Last(log) = << "radius", "rejected" >>
    /\ pcd = pcd_start /\ idx_work = idx_start

\* C4: save_cleaned_as_gs never writes an idx_cleaned that was produced by a
\* run which applied the voxel step.
C4_NoVoxelExport == written.what = "cleaned" => ~written.voxel

\* C5: in a clean run the flag is true when the first step begins, it goes
\* from true to false in exactly the transition in which the voxel step is
\* applied, and no step of the run turns a false flag true.
C5_FlagMonotonic ==
    [][/\ (pc = "count" /\ pc' = "voxel") => mapping_valid_cleaned'
       /\ (pc \in RunPcs /\ pc' /= pc) =>
            /\ (mapping_valid_cleaned /\ ~mapping_valid_cleaned')
                 <=> log' = Append(log, << "voxel", "applied" >>)
            /\ ~mapping_valid_cleaned => ~mapping_valid_cleaned']_vars

C5_Witness ==
    /\ Gui /\ pc = "finally" /\ ~Raised(log)
    /\ VoxelApplied(log) /\ ~mapping_valid_cleaned
    /\ Len(log) > 1

StepRank(step) ==
    CASE step = "voxel" -> 1
      [] step = "radius" -> 2
      [] step = "stat" -> 3
      [] step = "dbscan" -> 4
      [] step = "crop" -> 5

\* C7: the steps that ran in a run (GUI or CLI) ran in the order voxel,
\* radius, statistical, largest cluster, crop.
C7_FixedOrder ==
    \A i, j \in 1..Len(log) :
        i < j => StepRank(log[i][1]) < StepRank(log[j][1])

\* C8: a run in which a step was rejected still ends by publishing a cleaned
\* result, never in the except clause.
C8_RejectedNotFatal ==
    (Gui /\ pc \in {"except", "finally"}
         /\ \E i \in 1..Len(log) : log[i][2] = "rejected")
       => ~Raised(log)

\* C9: in a run (GUI or CLI) that started from a loaded, non-empty point
\* set, the working points and the working indices are never empty, and
\* what is published or written is not empty.
C9_NonEmpty ==
    (pc \in RunPcs \cup CliPcs /\ Len(pcd_start) > 0)
       => /\ Len(pcd) > 0 /\ Len(idx_work) > 0
          /\ (GuiRunPublished /\ pcd_cleaned /= NonePcd) => Len(pcd_cleaned) > 0
          /\ (GuiRunPublished /\ idx_cleaned /= NoneIdx) => Len(idx_cleaned) > 0
          /\ pc = "cli_done" => Len(written.rows) > 0

\* a run has ended without raising
RunComplete ==
    \/ Gui /\ pc \in {"result", "result_idx"}
    \/ GuiRunPublished
    \/ pc \in {"cli_save", "cli_done"}

AllNoopOrRejected(l) ==
    \A i \in 1..Len(l) : l[i][2] \in {"noop", "rejected"}

LoadFails(f) == ~HasVertex(f) \/ NRows(f) = 0 \/ ~HasXYZ(f)

\* C11: a load that fails (GUI or CLI) leaves the attribute table, the
\* current points and indices, the cleaned result and the source path as
\* they were before it.
C11_FailedLoadNoState ==
    [][/\ \A f \in Files :
            (LoadFails(f) /\ LoadPath(f))
               => UNCHANGED << src_path, ply_raw, vertex_data0, pcd_original,
                               pcd_current, idx_current, pcd_cleaned,
                               idx_cleaned, mapping_valid_cleaned >>
       /\ (pc = "cli_args" /\ pc' = "cli_exit")
            => UNCHANGED << ply_raw, vertex_data0, pcd, idx_work >>]_vars

\* the j-th smallest entry of idx, counted with repetitions
JthSmallest(idx, j) ==
    CHOOSE v \in {idx[i] : i \in 1..Len(idx)} :
        /\ Cardinality({i \in 1..Len(idx) : idx[i] < v}) < j
        /\ Cardinality({i \in 1..Len(idx) : idx[i] <= v}) >= j

\* rows holds one row of the table per entry of idx, in ascending index order
RowsAre(rows, table, idx) ==
    /\ Len(rows) = Len(idx)
    /\ \A j \in 1..Len(rows) : rows[j] = RowAttr(table, JthSmallest(idx, j) + 1)
    /\ {rows[j] : j \in 1..Len(rows)}
         = {RowAttr(table, idx[i] + 1) : i \in 1..Len(idx)}

\* C12: what a GS-safe export writes (CURRENT, CLEANED or the CLI's output)
\* has one row per kept index, row j being the row of the loaded table at
\* the j-th smallest kept index, and no other row.
C12_ExportRows ==
    [][written' /= written =>
         /\ written'.what = "current"
              => RowsAre(written'.rows, vertex_data0, idx_current)
         /\ written'.what = "cleaned"
              => RowsAre(written'.rows, vertex_data0, idx_cleaned)
         /\ written'.what = "cli"
              => RowsAre(written'.rows, vertex_data0, idx_work)]_vars

C12_Witness ==
    /\ written.what = "cleaned"
    /\ written.rows = << RowAttr("A", 2), RowAttr("A", 3) >>
    /\ idx_cleaned = << 1, 2 >>

\* min_bound and max_bound of a box, per axis
MinBound(b) == << b.min_x, b.min_y, b.min_z >>
MaxBound(b) == << b.max_x, b.max_y, b.max_z >>

\* the positions of the points of p within the bounds, both ends included
Within(p, b) ==
    {i \in 1..Len(p) :
        \A a \in 1..3 : MinBound(b)[a] <= p[i][a] /\ p[i][a] <= MaxBound(b)[a]}

\* the k-th smallest member of a set of positions
KthOf(S, k) == CHOOSE i \in S : Cardinality({j \in S : j < i}) = k - 1

\* t is s restricted to the positions in S, in the order of s
Restricted(t, s, S) ==
    /\ Len(t) = Cardinality(S)
    /\ \A k \in 1..Len(t) : t[k] = s[KthOf(S, k)]

\* this transition is the crop step of a run
CropNow == Len(log') = Len(log) + 1 /\ Last(log')[1] = "crop"

\* the bounds the crop step of the running program uses
CropBox == IF Gui THEN bounds ELSE args.box

\* C13: the crop step (GUI and CLI), on points paired with their indices,
\* keeps exactly the points within the bounds on every axis, both ends
\* included, with their indices and in their order, when there is such a
\* point; it is rejected exactly when there is none.
C13_CropKeeps ==
    [][(CropNow /\ Len(pcd) = Len(idx_work)) =>
         IF Within(pcd, CropBox) = {}
         THEN Last(log')[2] = "rejected"
         ELSE /\ Last(log')[2] = "applied"
              /\ Restricted(pcd', pcd, Within(pcd, CropBox))
              /\ Restricted(idx_work', idx_work, Within(pcd, CropBox))]_vars

C13_Witness ==
    /\ Gui /\ pc = "result"
    /\ Len(log) > 0 /\ Last(log) = << "crop", "applied" >>
    /\ bounds = BoxPart
    /\ Len(pcd_start) = 3 /\ idx_start = << 0, 1, 2 >>
    /\ Len(pcd) = 2 /\ idx_work = << 1, 2 >>

\* C14: a crop step whose bounds are what autofill_bounds produces for the
\* set it is applied to keeps every point: points and indices are unchanged.
C14_CropIdempotent ==
    [][(Gui /\ CropNow /\ bounds = AutofillOf(pcd))
          => pcd' = pcd /\ idx_work' = idx_work]_vars

\* min < max on every axis
ValidBox(b) == \A a \in 1..3 : MinBound(b)[a] < MaxBound(b)[a]

\* C15: the crop filter is never invoked with bounds that have min >= max
\* on some axis, in the GUI pipeline and in the CLI.
C15_NoCropWithInvalidBounds ==
    (\E i \in 1..Len(log) : log[i][1] = "crop") => ValidBox(CropBox)

\* the positions of a labelling that carry label l
Carrying(labels, l) == {i \in 1..Len(labels) : labels[i] = l}

\* the clusters of a labelling: its labels other than noise
Clusters(labels) == {labels[i] : i \in 1..Len(labels)} \ {-1}

\* the cluster with the most points, the lowest label among equals
Largest(labels) ==
    CHOOSE l \in Clusters(labels) :
        \A m \in Clusters(labels) :
            \/ Cardinality(Carrying(labels, l)) > Cardinality(Carrying(labels, m))
            \/ /\ Cardinality(Carrying(labels, l)) = Cardinality(Carrying(labels, m))
               /\ l <= m

\* this transition is the cluster step of a run
DbscanNow == Len(log') = Len(log) + 1 /\ Last(log')[1] = "dbscan"

\* this transition is the cluster finder acting on CURRENT
FinderNow ==
    /\ pcd_current /= NonePcd
    /\ DetectLargestClusterWith(LabelsFor(pcd_current))

\* C16: with labels that hold a cluster, the cluster step of a run (GUI and
\* CLI) and the cluster finder, on points paired with their indices, keep
\* exactly the points carrying the label with the most points, the lowest
\* such label among equally large clusters, with their indices and in their
\* order; a point labelled -1 is never kept.
C16_LargestCluster ==
    [][/\ (DbscanNow /\ Len(pcd) = Len(idx_work)
            /\ Clusters(LabelsFor(pcd)) /= {}) =>
           LET S == Carrying(LabelsFor(pcd), Largest(LabelsFor(pcd)))
           IN  /\ Last(log')[2] = "applied"
               /\ Restricted(pcd', pcd, S)
               /\ Restricted(idx_work', idx_work, S)
               /\ \A i \in S : LabelsFor(pcd)[i] /= -1
       /\ (FinderNow /\ Len(pcd_current) = Len(idx_current)
            /\ Clusters(LabelsFor(pcd_current)) /= {}) =>
           LET S == Carrying(LabelsFor(pcd_current),
                             Largest(LabelsFor(pcd_current)))
           IN  /\ Restricted(pcd_current', pcd_current, S)
               /\ Restricted(idx_current', idx_current, S)
               /\ \A i \in S : LabelsFor(pcd_current)[i] /= -1]_vars

\* a run has kept the cluster labelled 0 of two equally large clusters and
\* dropped a noise point
C16_Witness ==
    /\ Len(log) > 0 /\ Last(log) = << "dbscan", "applied" >>
    /\ dbscan_out = << 1, -1, 0 >>
    /\ idx_start = << 0, 1, 2 >>
    /\ idx_work = << 2 >>

\* C17: with labels that hold no cluster (all noise, or no points), the
\* cluster step of a run leaves the points and the indices as they were, is
\* logged as a no-op and counted as a completed step, and hands over to the
\* step that follows it (GUI and CLI); the cluster finder leaves CURRENT and
\* its indices as they were.
C17_ClusterNoop ==
    [][/\ (DbscanNow /\ Clusters(LabelsFor(pcd)) = {}) =>
           /\ pcd' = pcd /\ idx_work' = idx_work
           /\ Last(log')[2] = "noop"
           /\ Gui => (steps_done' = steps_done + 1 /\ pc' = "crop")
           /\ ~Gui => pc' = "cli_radius"
       /\ (FinderNow /\ Clusters(LabelsFor(pcd_current)) = {}) =>
           UNCHANGED << pcd_current, idx_current >>]_vars

\* a run on all-noise labels has gone through the cluster step and published
\* the whole cloud
C17_Witness ==
    /\ GuiRunPublished
    /\ dbscan_out = << -1, -1, -1 >>
    /\ \E i \in 1..Len(log) : log[i] = << "dbscan", "noop" >>
    /\ idx_start = << 0, 1, 2 >>
    /\ idx_cleaned = idx_start

\* C18: once the preset is loaded, every option the caller gave on the
\* command line has the caller's value.
C18_ExplicitWins ==
    (app = "cli" /\ "argv" \in DOMAIN args /\ pc /= "cli_preset") =>
        /\ args.argv.eps /= << >> => args.eps = args.argv.eps[1]
        /\ args.argv.dbscan => args.dbscan

\* C19: an invocation of the parameter advisor leaves CURRENT, its indices
\* and the entries of radius, eps and min_points as they were.
C19_AdvisorReadOnly ==
    [][AutosuggestParams =>
         UNCHANGED << pcd_current, idx_current, var_rad_r, var_db_eps,
                      var_db_minpts >>]_vars

\* C20: no step of a clean run, from its start to its end, changes CURRENT
\* or idx_current; and with a CLEANED result retained, neither the cluster
\* finder nor an orientation operation on CURRENT changes the CLEANED points
\* or idx_cleaned.
C20_IndependentSnapshots ==
    [][/\ (Gui /\ pc' /= pc) => UNCHANGED << pcd_current, idx_current >>
       /\ (/\ pcd_cleaned /= NonePcd
           /\ DetectLargestClusterNow \/ orient_flip_x \/ orient_swap_yz) =>
           UNCHANGED << pcd_cleaned, idx_cleaned >>]_vars

\* after a run that kept the whole cloud, CURRENT has had Y and Z swapped
\* and CLEANED still holds the points as the run left them
C20_Witness ==
    /\ Gui /\ pc = "idle"
    /\ pcd_cleaned = StackXYZ("A")
    /\ idx_cleaned = << 0, 1, 2 >>
    /\ pcd_current = SwappedYZ(StackXYZ("A"))

\* a clean run is active: its thread has been started and has not ended
RunActive == Gui /\ pc /= "idle"

\* C21: a clean run is started only while no run is active, and while a run
\* is active the run button stays disabled; so the cleaned result and the
\* mapping flag are written by one run at a time.
C21_OneRunAtATime ==
    [][/\ RunClean => ~RunActive
       /\ (btn_run = "normal" /\ btn_run' = "disabled") => ~RunActive
       /\ RunActive' => btn_run' = "disabled"]_vars

\* a second run has been started after a first one published its result
C21_Witness ==
    /\ RunActive /\ pc = "snap"
    /\ btn_run = "disabled"
    /\ pcd_cleaned /= NonePcd

\* C22: every started run reaches its end: the run button is enabled again
\* and no run is active, whatever the steps did.
C22_RunFinishes == RunActive ~> (Gui /\ pc = "idle" /\ btn_run = "normal")

\* a run in which a step raised has reached the finally clause
C22_Witness == Gui /\ pc = "finally" /\ Raised(log)

\* the cleaned result as it is retained now
CleanedNow == << pcd_cleaned, idx_cleaned, mapping_valid_cleaned >>

\* C23: at the end of a run that raised, started with a cleaned result
\* retained and with no load, reset or cluster selection made since, the
\* cleaned points, idx_cleaned and the mapping flag are what they were when
\* the run was started.
C23_ErrorKeepsCleaned ==
    (/\ Gui /\ pc = "finally" /\ Raised(log)
     /\ cleaned_start[1] /= NonePcd /\ cleaned_start[4] = ops) =>
        CleanedNow = << cleaned_start[1], cleaned_start[2], cleaned_start[3] >>

\* C24: in a run whose start snapshot paired as many points as indices,
\* the working points and the working indices have equal length in every
\* state, and so have the published pcd_cleaned and idx_cleaned.
C24_EqualLength ==
    (Gui /\ pc \in RunPcs /\ Len(pcd_start) = Len(idx_start)) =>
        /\ Len(pcd) = Len(idx_work)
        /\ (GuiRunPublished /\ pcd_cleaned = pcd /\ idx_cleaned = idx_work)
              => Len(pcd_cleaned) = Len(idx_cleaned)

\* C25: over the steps of a run the count of completed steps never
\* decreases, goes up by one exactly with a step that is applied or is the
\* cluster no-op, stays with a rejected or skipped step, and never exceeds
\* the total counted at the start of the run.
C25_Progress ==
    [][(Gui /\ pc \in RunPcs /\ pc' \in RunPcs) =>
         /\ steps_done' >= steps_done
         /\ Len(log') = Len(log) + 1 =>
               steps_done' = steps_done
                   + (IF Last(log')[2] \in {"applied", "noop"} THEN 1 ELSE 0)
         /\ Len(log') = Len(log) => steps_done' = steps_done
         /\ steps_done' <= steps_total']_vars

\* C26: when a run copies the indices (line 843), CURRENT still holds the
\* points the run copied (line 842): the two copies are taken from one state
\* of CURRENT.
C26_ConsistentSnapshot ==
    [][(Gui /\ pc = "snap" /\ pc' = "count") =>
         /\ pcd_start = pcd_current
         /\ idx_start' = idx_current
         /\ Len(pcd_start') = Len(idx_start')]_vars

\* the run's snapshot is the whole of one well-formed file, points and indices
SnapshotOfOneFile ==
    \E f \in GoodFiles : pcd_start = StackXYZ(f) /\ idx_start = Arange(NRows(f))

\* a load or a reset was made since run_clean started the thread
SessionChangedInRun == Gui /\ pc \in RunPcs /\ ops > cleaned_start[4]

\* CLEANED is the rows of the loaded table at idx_cleaned, point by point
CleanedOfLoadedTable ==
    /\ pcd_cleaned /= NonePcd
    /\ Len(pcd_cleaned) = Len(idx_cleaned)
    /\ \A i \in 1..Len(idx_cleaned) :
         /\ idx_cleaned[i] < NRows(vertex_data0)
         /\ pcd_cleaned[i] = RowXYZ(vertex_data0, idx_cleaned[i] + 1)

\* C27: when a run that started from a consistent snapshot finishes after a
\* load or a reset made during the run, a cleaned result that the GS-safe
\* export accepts was computed from the attribute table that is loaded now:
\* its points are that table's rows at idx_cleaned.
C27_CleanedOfCurrentFile ==
    (/\ GuiRunPublished
     /\ SnapshotOfOneFile
     /\ SessionChangedInRun
     /\ CleanedExportAllowed) => CleanedOfLoadedTable

\* C28: a reset to original made after a successful load leaves idx_current
\* the identity 0..N-1 over the N rows of the loaded table with N points in
\* CURRENT (those of ORIGINAL), no cleaned points, no idx_cleaned, and the
\* mapping-valid flag true.
C28_ResetRestores ==
    [][(ResetToOriginal /\ src_path /= None) =>
         /\ pcd_current' = pcd_original
         /\ idx_current' = Arange(NRows(vertex_data0'))
         /\ Len(pcd_current') = NRows(vertex_data0')
         /\ pcd_cleaned' = NonePcd
         /\ idx_cleaned' = NoneIdx
         /\ mapping_valid_cleaned']_vars
====
